---- MODULE Spec2Model ----
(***************************************************************************)
(* Model of the Water_test map viewer: the data.js fetch helpers           *)
(* (fetchHydrometricStationMeta, fetchHydrometricRealtimeLatest,           *)
(* fetchHydrometricRealtime, fetchArcGISLayerGeoJSON, tryOrNull, logDebug) *)
(* and the load sequence of main.js.                                       *)
(*                                                                         *)
(* JavaScript values are represented as follows.                           *)
(*  - a string is a TLA+ string; a template literal is the sequence of its *)
(*    pieces (literal text and interpolated values), so that "the message  *)
(*    carries the station id" is membership of the id in the sequence;     *)
(*  - undefined is the string Undefined; a property that is absent and a   *)
(*    property holding undefined are not told apart by the code modelled;  *)
(*  - an HTTP status is the string of its number;                          *)
(*  - a time value is an integer (hours since 2024-01-01T00:00Z), NaN is   *)
(*    the value NaN, and the relational operator of JavaScript is          *)
(*    JsGreater, which is false as soon as one side is NaN.                *)
(***************************************************************************)
EXTENDS Integers, Sequences, FiniteSets, TLC

VARIABLES
    \* one call of a data.js operation
    op,             \* which operation is running
    stationNumber,  \* its argument (station number, or the layer URL)
    pc,             \* position of the call
    requests,       \* requests issued so far, in order
    responses,      \* responses received so far, in order
    json,           \* the `json` local once a query has succeeded
    result,         \* how the call settled
    debug,          \* text of the #debug element / console: logged messages
    \* the dedup fold alone
    foldRows,       \* the `rows` the fold runs over
    foldLatest,     \* what the fold returned
    foldPhase,      \* "input", or the name of the fold that ran
    \* the load sequence of main.js
    mainPc,         \* position of the async function
    wsaLayers,      \* CONFIG.wsaLayers
    stnIdx,         \* index of the station loop
    layerIdx,       \* index of the layer loop
    meta,           \* the `meta` local of the station loop, once not null
    hydroLayer,     \* markers added to hydroLayer
    mapLayers,      \* GeoJSON layers added to the map (and to overlayLayers)
    calls           \* history: the promises main has awaited, in order

vars == <<op, stationNumber, pc, requests, responses, json, result, debug,
          foldRows, foldLatest, foldPhase,
          mainPc, wsaLayers, stnIdx, layerIdx, meta, hydroLayer, mapLayers, calls>>

opVars   == <<op, stationNumber, pc, requests, responses, json, result>>
foldVars == <<foldRows, foldLatest, foldPhase>>
mainVars == <<mainPc, wsaLayers, stnIdx, layerIdx, meta, hydroLayer, mapLayers, calls>>

----------------------------------------------------------------------------
(* Bounds of the model *)

\* longest feature array of a response body
MaxFeatures == 2
\* longest row sequence given to the fold alone
MaxFoldRows == 4
\* longest CONFIG.wsaLayers
MaxLayers == 2

----------------------------------------------------------------------------
(* Values *)

Undefined == "undefined"
NaN == -1

Range(s) == {s[i] : i \in 1..Len(s)}

SeqsUpTo(S, n) == UNION {[1..k -> S] : k \in 0..n}

OGC_BASE == "https://api.weather.gc.ca/collections"

\* CONFIG.wscStations
wscStations == <<"05JF003", "05JF008">>

\* values a feature's STATION_NUMBER takes in the model
StationValues == Range(wscStations) \cup {Undefined}

\* values a row's PARAMETER takes in the model
ParameterValues == {"Level", "Flow"}

\* values a row's DATE takes in the model: two instants, a second spelling
\* of the later instant, and a string Date cannot parse
DateValues == {"2024-01-01T00:00:00Z", "2024-01-01T01:00:00Z",
               "2024-01-01T02:00:00+01:00", "not-a-date"}

\* new Date(s).valueOf(), in hours since 2024-01-01T00:00Z
DateParse(s) ==
    CASE s = "2024-01-01T00:00:00Z"      -> 0
      [] s = "2024-01-01T01:00:00Z"      -> 1
      [] s = "2024-01-01T02:00:00+01:00" -> 1
      [] OTHER                           -> NaN

\* a > b on two Date objects (compared by time value; NaN makes it false)
JsGreater(a, b) == a # NaN /\ b # NaN /\ a > b

\* f.properties || {} with every property absent
EmptyRow == [STATION_NUMBER |-> Undefined, PARAMETER |-> Undefined, DATE |-> Undefined]

----------------------------------------------------------------------------
(* The dedup fold: "keep most recent per parameter" *)

\* byParam.has(key): a Map is the sequence of its values in insertion order,
\* each keyed by its PARAMETER
MapHas(m, key) == \E i \in 1..Len(m) : m[i].PARAMETER = key

\* byParam.get(key), given MapHas(m, key)
MapGet(m, key) == m[CHOOSE i \in 1..Len(m) : m[i].PARAMETER = key]

\* byParam.set(key, row): an existing key keeps its place, a new one is appended
MapSet(m, key, row) ==
    IF MapHas(m, key)
    THEN [i \in 1..Len(m) |-> IF m[i].PARAMETER = key THEN row ELSE m[i]]
    ELSE Append(m, row)

\* faulty variant of FoldStep: the first row of a key is never replaced
KeepFirstSeen(byParam, row) ==
    LET key == row.PARAMETER
    IN  IF ~MapHas(byParam, key) THEN MapSet(byParam, key, row) ELSE byParam

\* body of the for loop of fetchHydrometricRealtimeLatest: prev is a row
\* object, so !prev is "the key is not in the map"
FoldStep(byParam, row) ==
    LET key == row.PARAMETER
    IN  IF ~MapHas(byParam, key)
           \/ JsGreater(DateParse(row.DATE), DateParse(MapGet(byParam, key).DATE))
        THEN MapSet(byParam, key, row)
        ELSE byParam

RECURSIVE FoldFrom(_, _, _)
FoldFrom(byParam, rows, i) ==
    IF i > Len(rows) THEN byParam
    ELSE FoldFrom(FoldStep(byParam, rows[i]), rows, i + 1)

\* const byParam = new Map(); for (const row of rows) ...; Array.from(byParam.values())
LatestPerParameter(rows) == FoldFrom(<<>>, rows, 1)

\* body of the for loop of fetchHydrometricRealtime (the first data.js)
FoldStepV1(byParam, r) ==
    LET key == r.PARAMETER
    IN  IF ~MapHas(byParam, key) THEN MapSet(byParam, key, r)
        ELSE IF JsGreater(DateParse(r.DATE), DateParse(MapGet(byParam, key).DATE))
             THEN MapSet(byParam, key, r)
             ELSE byParam

RECURSIVE FoldFromV1(_, _, _)
FoldFromV1(byParam, rows, i) ==
    IF i > Len(rows) THEN byParam
    ELSE FoldFromV1(FoldStepV1(byParam, rows[i]), rows, i + 1)

\* [...byParam.values()] of fetchHydrometricRealtime
LatestPerParameterV1(rows) == FoldFromV1(<<>>, rows, 1)

----------------------------------------------------------------------------
(* Responses of the network *)

\* a response body, as r.json() settles on it: unparsable (r.json() rejects),
\* the JSON value null, a JSON object without `features`, one whose `features`
\* is a JSON object, or one whose `features` is an array
NoBody ==
    [parsable |-> FALSE, isNull |-> FALSE, hasFeatures |-> FALSE, isArray |-> FALSE,
     features |-> <<>>]
NullBody ==
    [parsable |-> TRUE, isNull |-> TRUE, hasFeatures |-> FALSE, isArray |-> FALSE,
     features |-> <<>>]
ObjectBody ==
    [parsable |-> TRUE, isNull |-> FALSE, hasFeatures |-> FALSE, isArray |-> FALSE,
     features |-> <<>>]
FeaturesObjectBody ==
    [parsable |-> TRUE, isNull |-> FALSE, hasFeatures |-> TRUE, isArray |-> FALSE,
     features |-> <<>>]
FeaturesBody(feats) ==
    [parsable |-> TRUE, isNull |-> FALSE, hasFeatures |-> TRUE, isArray |-> TRUE,
     features |-> feats]

\* fetch() rejected: no response at all
NetworkError == [netOk |-> FALSE, status |-> "0", body |-> NoBody]
\* a response whose status is not 2xx: its body is never read
HttpError(status) == [netOk |-> TRUE, status |-> status, body |-> NoBody]
\* a 200 response with the given body
HttpOk(body) == [netOk |-> TRUE, status |-> "200", body |-> body]

ErrorStatuses == {"404", "500"}

\* r.ok
ResponseOk(r) == r.status = "200"

\* f.geometry of a feature
NoGeometry == [present |-> FALSE, isArray |-> FALSE, coordinates |-> <<>>]
NoCoordinates == [present |-> TRUE, isArray |-> FALSE, coordinates |-> <<>>]
Point(c) == [present |-> TRUE, isArray |-> TRUE, coordinates |-> c]

\* coordinate arrays of the model, of length 0 to 3
CoordinateValues == {<<>>, <<"-104.617">>, <<"-104.617", "50.445">>,
                     <<"-104.617", "50.445", "570.0">>}

Geometries == {NoGeometry, NoCoordinates} \cup {Point(c) : c \in CoordinateValues}

\* an element of `features` that is a JSON object
Feature(properties, geometry) ==
    [isNull |-> FALSE, properties |-> properties, geometry |-> geometry]

\* an element of `features` that is the JSON value null
NullFeature == [isNull |-> TRUE, properties |-> EmptyRow, geometry |-> NoGeometry]

\* features of the hydrometric-stations collection
StationFeatures ==
    {Feature([EmptyRow EXCEPT !.STATION_NUMBER = s], g) :
        s \in StationValues, g \in Geometries}

\* rows of the hydrometric-realtime collection
RealtimeRows ==
    {EmptyRow} \cup [STATION_NUMBER : StationValues, PARAMETER : ParameterValues,
                     DATE : DateValues]

RealtimeFeatures == {Feature(r, NoGeometry) : r \in RealtimeRows}

\* the bodies of a 200 response: every kind of body, the arrays holding up to
\* MaxFeatures elements, each a feature of the collection or null
Bodies(features) ==
    {NoBody, NullBody, ObjectBody, FeaturesObjectBody}
        \cup {FeaturesBody(fs) : fs \in SeqsUpTo(features \cup {NullFeature}, MaxFeatures)}

ResponsesOver(features) ==
    {NetworkError} \cup {HttpError(s) : s \in ErrorStatuses}
        \cup {HttpOk(b) : b \in Bodies(features)}

----------------------------------------------------------------------------
(* Errors and settled promises *)

NoError == [name |-> "", message |-> <<>>]

\* new Error(`...`): the message is the sequence of the template's pieces
Error(message) == [name |-> "Error", message |-> message]
\* a TypeError the engine raises
TypeError(message) == [name |-> "TypeError", message |-> message]
\* what fetch() rejects with
FetchTypeError == TypeError(<<"Failed to fetch">>)
\* json.features when json is null
NullJsonError == TypeError(<<"Cannot read properties of null (reading 'features')">>)
\* x.properties / f.properties when the element is null
NullFeatureError == TypeError(<<"Cannot read properties of null (reading 'properties')">>)
\* feats.find / (json.features || []).map when `features` is not an array
NotAFunctionError(callee) == TypeError(<<callee, " is not a function">>)
\* what r.json() rejects with
JsonSyntaxError == [name |-> "SyntaxError", message |-> <<"Unexpected token in JSON">>]

Returned(v) == [threw |-> FALSE, error |-> NoError, value |-> v]
Threw(e) == [threw |-> TRUE, error |-> e, value |-> Undefined]
Pending == [threw |-> FALSE, error |-> NoError, value |-> "pending"]

\* faulty variant of FetchJson: r.ok is not looked at
FetchJsonIgnoringStatus(message, r) ==
    IF ~r.netOk THEN Threw(FetchTypeError)
    ELSE IF ~r.body.parsable THEN Threw(JsonSyntaxError)
    ELSE Returned(r.body)

\* await fetch(url); if (!r.ok) throw new Error(message); return r.json()
FetchJson(message, r) ==
    IF ~r.netOk THEN Threw(FetchTypeError)
    ELSE IF ~ResponseOk(r) THEN Threw(Error(message \o <<r.status>>))
    ELSE IF ~r.body.parsable THEN Threw(JsonSyntaxError)
    ELSE Returned(r.body)

----------------------------------------------------------------------------
(* fetchHydrometricStationMeta *)

\* the request of tryCql: filter STATION_NUMBER='<stationNumber>', limit 1
MetaCqlRequest(stn) ==
    [url |-> <<OGC_BASE, "/hydrometric-stations/items">>, filter |-> stn, limit |-> "1"]

\* the request of tryUnfiltered: no filter, limit 1000
MetaUnfilteredRequest ==
    [url |-> <<OGC_BASE, "/hydrometric-stations/items">>, filter |-> Undefined, limit |-> "1000"]

\* `stations meta ${stationNumber}: ${r.status}` up to the status
MetaCqlMessage(stn) == <<"stations meta ", stn, ": ">>

\* faulty variant of MetaUnfilteredMessage: the station number is left out
MessageWithoutStation(stn) == <<"stations meta (fallback): ">>

\* `stations meta (fallback) ${stationNumber}: ${r.status}` up to the status
MetaUnfilteredMessage(stn) == <<"stations meta (fallback) ", stn, ": ">>

\* `[warning] stations CQL failed: ${e.message || e}`
MetaCqlFailed(e) == <<"[warning] stations CQL failed: ">> \o e.message

\* (x.properties?.STATION_NUMBER || "").toString()
StationString(properties) ==
    IF properties.STATION_NUMBER = Undefined THEN "" ELSE properties.STATION_NUMBER

\* feats.find(x => ... === stationNumber): index of the first match from i on,
\* 0 if none, -1 when the callback meets a null element first (x.properties
\* raises a TypeError)
RECURSIVE FindStation(_, _, _)
FindStation(feats, stn, i) ==
    IF i > Len(feats) THEN 0
    ELSE IF feats[i].isNull THEN -1
    ELSE IF StationString(feats[i].properties) = stn THEN i
    ELSE FindStation(feats, stn, i + 1)

\* faulty variant of SelectFeature: feats[0] whatever its station
FirstFeatureAlways(feats, stn) == IF Len(feats) > 0 THEN 1 ELSE 0

\* feats.find(...) || feats[0]: index of the selected feature, 0 for undefined,
\* -1 when find raised
SelectFeature(feats, stn) ==
    LET found == FindStation(feats, stn, 1)
    IN  IF found # 0 THEN found ELSE IF Len(feats) > 0 THEN 1 ELSE 0

\* faulty variant of HasGeometry: coordinates are not checked to be an array
AcceptsAnyGeometry(g) == g.present

\* f.geometry && Array.isArray(f.geometry.coordinates)
HasGeometry(g) == g.present /\ g.isArray

\* const [lon, lat] = f.geometry.coordinates; { lat, lon, props: f.properties || {} }
Location(f) ==
    LET c == f.geometry.coordinates
    IN  [lat   |-> IF Len(c) >= 2 THEN c[2] ELSE Undefined,
         lon   |-> IF Len(c) >= 1 THEN c[1] ELSE Undefined,
         props |-> f.properties]

\* `No geometry for station ${stationNumber}`
NoGeometryError(stn) == Error(<<"No geometry for station ", stn>>)

\* json.features || [], for a json that is an object whose features, if any,
\* are an array
FeaturesOf(j) == IF j.hasFeatures THEN j.features ELSE <<>>

\* the function from `const feats` on: what it logs and how it settles.
\* json.features raises on a null json; a `features` that is an object has no
\* length and no find; find raises on a null element it visits; a selected
\* element that is null (the faulty selection only) fails `!f`
MetaFinish(stn, j) ==
    IF j.isNull THEN [log |-> <<>>, result |-> Threw(NullJsonError)]
    ELSE IF j.hasFeatures /\ ~j.isArray
    THEN [log    |-> << <<"stations returned: ", Undefined>> >>,
          result |-> Threw(NotAFunctionError("feats.find"))]
    ELSE LET feats == FeaturesOf(j)
             sel   == SelectFeature(feats, stn)
         IN  [log    |-> << <<"stations returned: ", ToString(Len(feats))>> >>,
              result |-> IF sel = -1 THEN Threw(NullFeatureError)
                         ELSE IF sel = 0 \/ feats[sel].isNull
                                 \/ ~HasGeometry(feats[sel].geometry)
                         THEN Threw(NoGeometryError(stn))
                         ELSE Returned(Location(feats[sel]))]

----------------------------------------------------------------------------
(* fetchHydrometricRealtimeLatest *)

LatestCqlRequest(stn) ==
    [url |-> <<OGC_BASE, "/hydrometric-realtime/items">>, filter |-> stn, limit |-> "5000"]

LatestUnfilteredRequest ==
    [url |-> <<OGC_BASE, "/hydrometric-realtime/items">>, filter |-> Undefined, limit |-> "5000"]

\* `realtime ${stationNumber}: ${r.status}` up to the status
LatestCqlMessage(stn) == <<"realtime ", stn, ": ">>

\* `realtime (fallback) ${stationNumber}: ${r.status}` up to the status
LatestUnfilteredMessage(stn) == <<"realtime (fallback) ", stn, ": ">>

\* `[warning] realtime CQL failed: ${e.message || e}`
LatestCqlFailed(e) == <<"[warning] realtime CQL failed: ">> \o e.message

\* (json.features || []).map(f => f.properties || {}), when it does not raise
RowsOf(j) == LET feats == FeaturesOf(j) IN [i \in 1..Len(feats) |-> feats[i].properties]

\* the TypeError `let rows = ...` raises, NoError if it raises none:
\* json.features on a null json, map on a `features` that is an object,
\* f.properties on a null element
RowsError(j) ==
    IF j.isNull THEN NullJsonError
    ELSE IF j.hasFeatures /\ ~j.isArray THEN NotAFunctionError("(json.features || []).map")
    ELSE IF \E i \in 1..Len(FeaturesOf(j)) : FeaturesOf(j)[i].isNull THEN NullFeatureError
    ELSE NoError

\* rows.length && !rows[0].STATION_NUMBER
KeepsAllRows(rows) == Len(rows) > 0 /\ rows[1].STATION_NUMBER = Undefined

\* the rows the fold runs over: all of them, or those of the station
LocalFilter(rows, stn) ==
    IF KeepsAllRows(rows) THEN rows
    ELSE SelectSeq(rows, LAMBDA r : StationString(r) = stn)

\* the message logged by the branch taken
RealtimeReturned(rows, stn) ==
    IF KeepsAllRows(rows)
    THEN <<"realtime returned: ", ToString(Len(rows)), " records">>
    ELSE <<"realtime returned: ", ToString(Len(LocalFilter(rows, stn))),
           " records for ", stn>>

\* faulty variant of LatestFinish: no row is an error
ThrowsOnNoRows(stn, j) ==
    IF RowsError(j) # NoError
    THEN [log |-> <<>>, rows |-> <<>>, result |-> Threw(RowsError(j))]
    ELSE LET rows == RowsOf(j)
         IN  [log    |-> << RealtimeReturned(rows, stn) >>,
              rows   |-> LocalFilter(rows, stn),
              result |-> IF LocalFilter(rows, stn) = <<>>
                         THEN Threw(Error(<<"No data for station ", stn>>))
                         ELSE Returned(LatestPerParameter(LocalFilter(rows, stn)))]

\* the function from `let rows` on: what it logs, the rows folded, how it settles
LatestFinish(stn, j) ==
    IF RowsError(j) # NoError
    THEN [log |-> <<>>, rows |-> <<>>, result |-> Threw(RowsError(j))]
    ELSE LET rows == RowsOf(j)
         IN  [log    |-> << RealtimeReturned(rows, stn) >>,
              rows   |-> LocalFilter(rows, stn),
              result |-> Returned(LatestPerParameter(LocalFilter(rows, stn)))]

----------------------------------------------------------------------------
(* fetchArcGISLayerGeoJSON *)

\* layer URLs of the model: one plain, one with a trailing slash
LayerUrls == {"https://host/arcgis/rest/services/Dams/FeatureServer/0",
              "https://host/arcgis/rest/services/Gauges/FeatureServer/1/"}

\* featureServerUrl.replace(/\/+$/, "")
StripTrailingSlashes(url) ==
    IF url = "https://host/arcgis/rest/services/Gauges/FeatureServer/1/"
    THEN "https://host/arcgis/rest/services/Gauges/FeatureServer/1"
    ELSE url

\* the query URL and its parameters
LayerRequest(url) ==
    [url |-> <<StripTrailingSlashes(url), "/query">>, filter |-> "1=1", limit |-> Undefined]

\* `ArcGIS layer: ${r.status}` up to the status
LayerMessage(url) == <<"ArcGIS layer: ">>

\* features of a layer
LayerFeatures == {Feature(EmptyRow, Point(<<"-104.617", "50.445">>)),
                  Feature(EmptyRow, NoGeometry)}

----------------------------------------------------------------------------
(* One call of an operation, from the call to the settling of its promise *)

\* faulty variant of CatchRuns: tryUnfiltered is called whatever tryCql did
CatchesAlways(p) == TRUE

\* tryCql().catch(...): the handler runs when tryCql rejected
CatchRuns(p) == p.threw

OpIdle ==
    /\ op = "none" /\ stationNumber = Undefined /\ pc = "idle"
    /\ requests = <<>> /\ responses = <<>> /\ json = NoBody /\ result = Pending

FoldIdle == foldRows = <<>> /\ foldLatest = <<>> /\ foldPhase = "idle"

\* `meta` before a location is assigned to it
NoLocation == [lat |-> Undefined, lon |-> Undefined, props |-> EmptyRow]

MainIdle ==
    /\ mainPc = "idle" /\ wsaLayers = <<>> /\ stnIdx = 0 /\ layerIdx = 0
    /\ meta = NoLocation /\ hydroLayer = <<>> /\ mapLayers = <<>> /\ calls = <<>>

Init == OpIdle /\ FoldIdle /\ MainIdle /\ debug = <<>>

\* fetchHydrometricStationMeta(stationNumber) up to the first await
CallStationMeta ==
    /\ pc = "idle"
    /\ \E stn \in Range(wscStations) :
        /\ op' = "fetchHydrometricStationMeta"
        /\ stationNumber' = stn
        /\ requests' = <<MetaCqlRequest(stn)>>
        /\ pc' = "tryCql"
        /\ UNCHANGED <<responses, json, result, debug, foldVars, mainVars>>

\* tryCql settles: either the catch handler logs and issues tryUnfiltered,
\* or the function runs to its end
MetaCqlSettles ==
    /\ pc = "tryCql" /\ op = "fetchHydrometricStationMeta"
    /\ \E r \in ResponsesOver(StationFeatures) :
        /\ responses' = Append(responses, r)
        /\ LET p == FetchJson(MetaCqlMessage(stationNumber), r)
           IN  IF CatchRuns(p)
               THEN /\ debug' = Append(debug, MetaCqlFailed(p.error))
                    /\ requests' = Append(requests, MetaUnfilteredRequest)
                    /\ pc' = "tryUnfiltered"
                    /\ UNCHANGED <<json, result>>
               ELSE LET f == MetaFinish(stationNumber, p.value)
                    IN  /\ json' = p.value
                        /\ debug' = debug \o f.log
                        /\ result' = f.result
                        /\ pc' = "done"
                        /\ UNCHANGED requests
        /\ UNCHANGED <<op, stationNumber, foldVars, mainVars>>

\* tryUnfiltered settles: its rejection is the function's, else the function
\* runs to its end
MetaUnfilteredSettles ==
    /\ pc = "tryUnfiltered" /\ op = "fetchHydrometricStationMeta"
    /\ \E r \in ResponsesOver(StationFeatures) :
        /\ responses' = Append(responses, r)
        /\ LET p == FetchJson(MetaUnfilteredMessage(stationNumber), r)
           IN  IF p.threw
               THEN /\ result' = p
                    /\ UNCHANGED <<json, debug>>
               ELSE LET f == MetaFinish(stationNumber, p.value)
                    IN  /\ json' = p.value
                        /\ debug' = debug \o f.log
                        /\ result' = f.result
        /\ pc' = "done"
        /\ UNCHANGED <<op, stationNumber, requests, foldVars, mainVars>>

\* fetchHydrometricRealtimeLatest(stationNumber) up to the first await
CallRealtimeLatest ==
    /\ pc = "idle"
    /\ \E stn \in Range(wscStations) :
        /\ op' = "fetchHydrometricRealtimeLatest"
        /\ stationNumber' = stn
        /\ requests' = <<LatestCqlRequest(stn)>>
        /\ pc' = "tryCql"
        /\ UNCHANGED <<responses, json, result, debug, foldVars, mainVars>>

LatestCqlSettles ==
    /\ pc = "tryCql" /\ op = "fetchHydrometricRealtimeLatest"
    /\ \E r \in ResponsesOver(RealtimeFeatures) :
        /\ responses' = Append(responses, r)
        /\ LET p == FetchJson(LatestCqlMessage(stationNumber), r)
           IN  IF CatchRuns(p)
               THEN /\ debug' = Append(debug, LatestCqlFailed(p.error))
                    /\ requests' = Append(requests, LatestUnfilteredRequest)
                    /\ pc' = "tryUnfiltered"
                    /\ UNCHANGED <<json, result>>
               ELSE LET f == LatestFinish(stationNumber, p.value)
                    IN  /\ json' = p.value
                        /\ debug' = debug \o f.log
                        /\ result' = f.result
                        /\ pc' = "done"
                        /\ UNCHANGED requests
        /\ UNCHANGED <<op, stationNumber, foldVars, mainVars>>

LatestUnfilteredSettles ==
    /\ pc = "tryUnfiltered" /\ op = "fetchHydrometricRealtimeLatest"
    /\ \E r \in ResponsesOver(RealtimeFeatures) :
        /\ responses' = Append(responses, r)
        /\ LET p == FetchJson(LatestUnfilteredMessage(stationNumber), r)
           IN  IF p.threw
               THEN /\ result' = p
                    /\ UNCHANGED <<json, debug>>
               ELSE LET f == LatestFinish(stationNumber, p.value)
                    IN  /\ json' = p.value
                        /\ debug' = debug \o f.log
                        /\ result' = f.result
        /\ pc' = "done"
        /\ UNCHANGED <<op, stationNumber, requests, foldVars, mainVars>>

\* fetchArcGISLayerGeoJSON(featureServerUrl, CONFIG.bbox) up to the await
CallArcGISLayer ==
    /\ pc = "idle"
    /\ \E url \in LayerUrls :
        /\ op' = "fetchArcGISLayerGeoJSON"
        /\ stationNumber' = url
        /\ requests' = <<LayerRequest(url)>>
        /\ pc' = "fetch"
        /\ UNCHANGED <<responses, json, result, debug, foldVars, mainVars>>

\* the response arrives: the promise settles as FetchJson does
ArcGISLayerSettles ==
    /\ pc = "fetch" /\ op = "fetchArcGISLayerGeoJSON"
    /\ \E r \in ResponsesOver(LayerFeatures) :
        /\ responses' = Append(responses, r)
        /\ result' = FetchJson(LayerMessage(stationNumber), r)
        /\ pc' = "done"
        /\ UNCHANGED <<op, stationNumber, requests, json, debug, foldVars, mainVars>>

Next ==
    \/ CallStationMeta
    \/ MetaCqlSettles
    \/ MetaUnfilteredSettles
    \/ CallRealtimeLatest
    \/ LatestCqlSettles
    \/ LatestUnfilteredSettles
    \/ CallArcGISLayer
    \/ ArcGISLayerSettles

Spec == Init /\ [][Next]_vars

----------------------------------------------------------------------------
(* The fold alone, over every row sequence of the bound *)

\* rows of one station: the fold does not read STATION_NUMBER
FoldRowValues ==
    {EmptyRow} \cup [STATION_NUMBER : {wscStations[1]}, PARAMETER : ParameterValues,
                     DATE : DateValues]

FoldInit ==
    /\ OpIdle /\ MainIdle /\ debug = <<>>
    /\ foldRows \in SeqsUpTo(FoldRowValues, MaxFoldRows)
    /\ foldLatest = <<>>
    /\ foldPhase = "input"

\* the fold of fetchHydrometricRealtimeLatest runs over the rows
RunLatestFold ==
    /\ foldPhase = "input"
    /\ foldLatest' = LatestPerParameter(foldRows)
    /\ foldPhase' = "fetchHydrometricRealtimeLatest"
    /\ UNCHANGED <<foldRows, opVars, mainVars, debug>>

\* the fold of fetchHydrometricRealtime runs over the rows
RunRealtimeFold ==
    /\ foldPhase = "input"
    /\ foldLatest' = LatestPerParameterV1(foldRows)
    /\ foldPhase' = "fetchHydrometricRealtime"
    /\ UNCHANGED <<foldRows, opVars, mainVars, debug>>

FoldNext == RunLatestFold \/ RunRealtimeFold

FoldSpec == FoldInit /\ [][FoldNext]_vars

----------------------------------------------------------------------------
(* The operations as main.js awaits them: a call and its settled promise *)

\* what fetchHydrometricStationMeta(stn) settles with once its last query has
\* settled with p, and the lines it logs while doing so
StationMetaCall(stn, p) ==
    IF p.threw THEN [result |-> p, log |-> <<>>]
    ELSE [result |-> MetaFinish(stn, p.value).result,
          log    |-> MetaFinish(stn, p.value).log]

\* fetchHydrometricRealtimeLatest(stn), likewise
RealtimeLatestCall(stn, p) ==
    IF p.threw THEN [result |-> p, log |-> <<>>]
    ELSE [result |-> LatestFinish(stn, p.value).result,
          log    |-> LatestFinish(stn, p.value).log]

\* faulty variant of tryOrNull: the rejection is logged and thrown again
RethrowsRejection(p, label) ==
    [settled |-> p, isNull |-> FALSE,
     log |-> IF p.threw THEN << <<"[warning] ">> \o label \o <<" ">> \o p.error.message >>
             ELSE <<>>]

\* faulty variant of tryOrNull: null without a log
ReturnsNullSilently(p, label) ==
    [settled |-> IF p.threw THEN Returned(Undefined) ELSE p, isNull |-> p.threw, log |-> <<>>]

\* tryOrNull(promise, label): the promise's value, or null after logging
\* `[warning] ${label} ${e.message || e}`; it never rejects
tryOrNull(p, label) ==
    IF p.threw
    THEN [settled |-> Returned(Undefined), isNull |-> TRUE,
          log |-> << <<"[warning] ">> \o label \o <<" ">> \o p.error.message >>]
    ELSE [settled |-> p, isNull |-> FALSE, log |-> <<>>]

----------------------------------------------------------------------------
(* The load sequence of main.js *)

\* responses main.js is given in the model: a failure, a null body, an empty
\* result, a result
GoodStationFeature(stn) ==
    Feature([EmptyRow EXCEPT !.STATION_NUMBER = stn], Point(<<"-104.617", "50.445">>))

LevelRow(stn) ==
    [STATION_NUMBER |-> stn, PARAMETER |-> "Level", DATE |-> "2024-01-01T00:00:00Z"]

MainMetaResponses(stn) ==
    {HttpError("500"), HttpOk(NullBody), HttpOk(FeaturesBody(<<>>)),
     HttpOk(FeaturesBody(<<GoodStationFeature(stn)>>))}

MainRealtimeResponses(stn) ==
    {HttpError("500"), HttpOk(NullBody), HttpOk(FeaturesBody(<<>>)),
     HttpOk(FeaturesBody(<<Feature(LevelRow(stn), NoGeometry)>>))}

MainLayerResponses ==
    {NetworkError, HttpError("500"), HttpOk(FeaturesBody(<<>>)),
     HttpOk(FeaturesBody(<<GoodStationFeature(Undefined)>>))}

\* url.split("/").slice(-3).join("/")
LayerName(url) ==
    CASE url = "https://host/arcgis/rest/services/Dams/FeatureServer/0"
            -> "Dams/FeatureServer/0"
      [] url = "https://host/arcgis/rest/services/Gauges/FeatureServer/1/"
            -> "FeatureServer/1/"
      [] OTHER -> url

\* L.marker([meta.lat, meta.lon], { title }).bindPopup(html): the popup holds the
\* table of the latest rows, or "No recent values" when latest is null or empty
Marker(stn, m, t) ==
    LET has == ~t.isNull /\ Len(t.settled.value) > 0
    IN  [title  |-> <<"WSC ", stn>>,
         latlng |-> <<m.lat, m.lon>>,
         popup  |-> [heading |-> <<"WSC ", stn>>,
                     noRecentValues |-> ~has,
                     rows |-> IF has THEN t.settled.value ELSE <<>>]]

MainInit ==
    /\ OpIdle /\ FoldIdle
    /\ debug = << <<"main.js started">> >>
    /\ mainPc = "station"
    /\ wsaLayers \in SeqsUpTo(LayerUrls \cup {""}, MaxLayers)
    /\ stnIdx = 1 /\ layerIdx = 1
    /\ meta = NoLocation /\ hydroLayer = <<>> /\ mapLayers = <<>> /\ calls = <<>>

\* head of `for (const stn of CONFIG.wscStations)`: log and call the station
\* metadata operation, or leave the loop
MainNextStation ==
    /\ mainPc = "station"
    /\ IF stnIdx <= Len(wscStations)
       THEN /\ debug' = Append(debug, <<"Loading station ", wscStations[stnIdx], " meta">>)
            /\ mainPc' = "meta"
       ELSE /\ mainPc' = "layer"
            /\ UNCHANGED debug
    /\ UNCHANGED <<wsaLayers, stnIdx, layerIdx, meta, hydroLayer, mapLayers, calls,
                   opVars, foldVars>>

\* main.js after `await tryOrNull(fetchHydrometricStationMeta(stn), ...)` when
\* the call settled as c: `if (!meta) continue`, else log and call the
\* latest-values operation
MainMetaResumes(c) ==
    LET stn == wscStations[stnIdx]
        t   == tryOrNull(c.result, <<"station meta ", stn, ":">>)
    IN  /\ calls' = Append(calls, [op |-> "fetchHydrometricStationMeta",
                                   arg |-> stn, settled |-> c.result])
        /\ IF t.settled.threw
           THEN /\ mainPc' = "rejected"
                /\ debug' = debug \o c.log \o t.log
                /\ UNCHANGED <<stnIdx, meta>>
           ELSE IF t.isNull
           THEN /\ mainPc' = "station"
                /\ stnIdx' = stnIdx + 1
                /\ debug' = debug \o c.log \o t.log
                /\ UNCHANGED meta
           ELSE /\ mainPc' = "realtime"
                /\ meta' = t.settled.value
                /\ debug' = debug \o c.log \o t.log
                              \o << <<"Loading station ", stn, " realtime">> >>
                /\ UNCHANGED stnIdx

\* the filtered query of fetchHydrometricStationMeta(stn) settles while main.js
\* awaits the call: on a failure the catch handler logs it and issues the
\* unfiltered query, and main.js keeps waiting; otherwise the call settles and
\* main.js resumes
MainMetaSettles ==
    /\ mainPc = "meta"
    /\ \E r \in MainMetaResponses(wscStations[stnIdx]) :
        LET stn == wscStations[stnIdx]
            p   == FetchJson(MetaCqlMessage(stn), r)
        IN  IF CatchRuns(p)
            THEN /\ debug' = Append(debug, MetaCqlFailed(p.error))
                 /\ mainPc' = "metaFallback"
                 /\ UNCHANGED <<stnIdx, meta, calls>>
            ELSE MainMetaResumes(StationMetaCall(stn, p))
    /\ UNCHANGED <<wsaLayers, layerIdx, hydroLayer, mapLayers, opVars, foldVars>>

\* the unfiltered query of fetchHydrometricStationMeta(stn) settles: the call
\* settles and main.js resumes
MainMetaFallbackSettles ==
    /\ mainPc = "metaFallback"
    /\ \E r \in MainMetaResponses(wscStations[stnIdx]) :
        LET stn == wscStations[stnIdx]
        IN  MainMetaResumes(StationMetaCall(stn, FetchJson(MetaUnfilteredMessage(stn), r)))
    /\ UNCHANGED <<wsaLayers, layerIdx, hydroLayer, mapLayers, opVars, foldVars>>

\* main.js after `await tryOrNull(fetchHydrometricRealtimeLatest(stn), ...)`
\* when the call settled as c: build the popup, add the marker, next station
MainRealtimeResumes(c) ==
    LET stn == wscStations[stnIdx]
        t   == tryOrNull(c.result, <<"realtime ", stn, ":">>)
    IN  /\ calls' = Append(calls, [op |-> "fetchHydrometricRealtimeLatest",
                                   arg |-> stn, settled |-> c.result])
        /\ debug' = debug \o c.log \o t.log
        /\ IF t.settled.threw
           THEN /\ mainPc' = "rejected"
                /\ UNCHANGED <<stnIdx, hydroLayer>>
           ELSE /\ mainPc' = "station"
                /\ stnIdx' = stnIdx + 1
                /\ hydroLayer' = Append(hydroLayer, Marker(stn, meta, t))

\* the filtered query of fetchHydrometricRealtimeLatest(stn) settles while
\* main.js awaits the call: on a failure the catch handler logs it and issues
\* the unfiltered query, and main.js keeps waiting; otherwise the call settles
\* and main.js resumes
MainRealtimeSettles ==
    /\ mainPc = "realtime"
    /\ \E r \in MainRealtimeResponses(wscStations[stnIdx]) :
        LET stn == wscStations[stnIdx]
            p   == FetchJson(LatestCqlMessage(stn), r)
        IN  IF CatchRuns(p)
            THEN /\ debug' = Append(debug, LatestCqlFailed(p.error))
                 /\ mainPc' = "realtimeFallback"
                 /\ UNCHANGED <<stnIdx, hydroLayer, calls>>
            ELSE MainRealtimeResumes(RealtimeLatestCall(stn, p))
    /\ UNCHANGED <<wsaLayers, layerIdx, meta, mapLayers, opVars, foldVars>>

\* the unfiltered query of fetchHydrometricRealtimeLatest(stn) settles: the
\* call settles and main.js resumes
MainRealtimeFallbackSettles ==
    /\ mainPc = "realtimeFallback"
    /\ \E r \in MainRealtimeResponses(wscStations[stnIdx]) :
        LET stn == wscStations[stnIdx]
        IN  MainRealtimeResumes(RealtimeLatestCall(stn,
                                   FetchJson(LatestUnfilteredMessage(stn), r)))
    /\ UNCHANGED <<wsaLayers, layerIdx, meta, mapLayers, opVars, foldVars>>

\* head of `for (const url of CONFIG.wsaLayers)`: skip an empty url, log and
\* call the layer operation, or leave the loop and log the end
MainNextLayer ==
    /\ mainPc = "layer"
    /\ IF layerIdx > Len(wsaLayers)
       THEN /\ debug' = Append(debug, <<"Finished loading">>)
            /\ mainPc' = "done"
            /\ UNCHANGED layerIdx
       ELSE IF wsaLayers[layerIdx] = ""
       THEN /\ layerIdx' = layerIdx + 1
            /\ UNCHANGED <<debug, mainPc>>
       ELSE /\ debug' = Append(debug, <<"Loading WSA layer: ", wsaLayers[layerIdx]>>)
            /\ mainPc' = "geojson"
            /\ UNCHANGED layerIdx
    /\ UNCHANGED <<wsaLayers, stnIdx, meta, hydroLayer, mapLayers, calls, opVars, foldVars>>

\* `await tryOrNull(fetchArcGISLayerGeoJSON(url, CONFIG.bbox), ...)` resumes:
\* log "(no features)" and continue, or add the layer to the map
MainLayerSettles ==
    /\ mainPc = "geojson"
    /\ \E r \in MainLayerResponses :
        /\ LET url == wsaLayers[layerIdx]
               p   == FetchJson(LayerMessage(url), r)
               t   == tryOrNull(p, <<"WSA layer ", url, ":">>)
           IN  /\ calls' = Append(calls, [op |-> "fetchArcGISLayerGeoJSON",
                                          arg |-> url, settled |-> p])
               /\ IF t.settled.threw
                  THEN /\ mainPc' = "rejected"
                       /\ debug' = debug \o t.log
                       /\ UNCHANGED <<layerIdx, mapLayers>>
                  ELSE IF t.isNull \/ t.settled.value.isNull
                          \/ ~t.settled.value.hasFeatures
                          \/ ~t.settled.value.isArray
                          \/ Len(t.settled.value.features) = 0
                  THEN /\ mainPc' = "layer"
                       /\ layerIdx' = layerIdx + 1
                       /\ debug' = debug \o t.log \o << <<"(no features) ", url>> >>
                       /\ UNCHANGED mapLayers
                  ELSE /\ mainPc' = "layer"
                       /\ layerIdx' = layerIdx + 1
                       /\ debug' = debug \o t.log
                       /\ mapLayers' = Append(mapLayers, [name |-> LayerName(url),
                                                          geojson |-> t.settled.value])
        /\ UNCHANGED <<wsaLayers, stnIdx, meta, hydroLayer, opVars, foldVars>>

MainNext ==
    \/ MainNextStation
    \/ MainMetaSettles
    \/ MainMetaFallbackSettles
    \/ MainRealtimeSettles
    \/ MainRealtimeFallbackSettles
    \/ MainNextLayer
    \/ MainLayerSettles

\* every awaited request settles and the event loop resumes the function
MainSpec == MainInit /\ [][MainNext]_vars /\ WF_vars(MainNext)

----------------------------------------------------------------------------
(* Claims *)

ValidDates(rows) == \A i \in 1..Len(rows) : DateParse(rows[i].DATE) # NaN

ParameterKeys(rows) == {rows[i].PARAMETER : i \in 1..Len(rows)}

FoldRan == foldPhase \in {"fetchHydrometricRealtimeLatest", "fetchHydrometricRealtime"}

\* C1: over rows whose timestamps are all valid, the fold returns rows of the
\* input, exactly one for each distinct PARAMETER of the input, and the row
\* returned for a key is at least as late as every input row of that key.
C1_OneLatestRowPerParameter ==
    (FoldRan /\ ValidDates(foldRows)) =>
        /\ \A i \in 1..Len(foldLatest) : foldLatest[i] \in Range(foldRows)
        /\ \A k \in ParameterKeys(foldRows) :
              Cardinality({i \in 1..Len(foldLatest) : foldLatest[i].PARAMETER = k}) = 1
        /\ \A i \in 1..Len(foldLatest) : \A j \in 1..Len(foldRows) :
              foldRows[j].PARAMETER = foldLatest[i].PARAMETER
                  => DateParse(foldLatest[i].DATE) >= DateParse(foldRows[j].DATE)

\* the fold of fetchHydrometricRealtimeLatest ran over three valid rows, two of
\* one parameter with the later one second, and returned two rows
C1_Witness ==
    /\ foldPhase = "fetchHydrometricRealtimeLatest"
    /\ ValidDates(foldRows)
    /\ Len(foldRows) = 3
    /\ Len(foldLatest) = 2
    /\ \E i \in 1..3 : \E j \in (i + 1)..3 :
          /\ foldRows[i].PARAMETER = foldRows[j].PARAMETER
          /\ DateParse(foldRows[i].DATE) < DateParse(foldRows[j].DATE)
          /\ foldRows[j] \in Range(foldLatest)


StationOps == {"fetchHydrometricStationMeta", "fetchHydrometricRealtimeLatest"}

\* the fetch got a 2xx response whose body parsed
Succeeded(r) == r.netOk /\ r.status = "200" /\ r.body.parsable

\* the fetch got a response whose status is not 2xx
FailedByStatus(r) == r.netOk /\ r.status # "200"

CqlRequestOf(o, stn) ==
    IF o = "fetchHydrometricStationMeta" THEN MetaCqlRequest(stn) ELSE LatestCqlRequest(stn)

CqlMessageOf(o, stn) ==
    IF o = "fetchHydrometricStationMeta" THEN MetaCqlMessage(stn) ELSE LatestCqlMessage(stn)

UnfilteredRequestOf(o) ==
    IF o = "fetchHydrometricStationMeta" THEN MetaUnfilteredRequest
    ELSE LatestUnfilteredRequest

\* the primary result set holds the requested station as its first entry
StationFirst(r, stn) ==
    /\ r.body.hasFeatures /\ Len(r.body.features) > 0
    /\ r.body.features[1].properties.STATION_NUMBER = stn

\* C2: a station operation whose primary query succeeded with a result set that
\* does not hold the requested station as its first entry (an empty set
\* included) has issued the unfiltered fallback query by the time it settles.
C2_FallbackWhenFilterIgnored ==
    (pc = "done" /\ op \in StationOps /\ Succeeded(responses[1])
        /\ ~StationFirst(responses[1], stationNumber))
    => (Len(requests) = 2 /\ requests[2] = UnfilteredRequestOf(op))

\* fetchHydrometricStationMeta raises a TypeError on parsed body j: j is null,
\* or its `features` is not an array, or a null element comes before the first
\* entry of station stn
MetaRaises(j, stn) ==
    \/ j.isNull
    \/ j.hasFeatures /\ ~j.isArray
    \/ \E i \in 1..Len(j.features) :
          /\ j.features[i].isNull
          /\ \A k \in 1..(i - 1) : j.features[k].properties.STATION_NUMBER # stn

\* fetchHydrometricRealtimeLatest raises a TypeError on parsed body j: j is
\* null, or its `features` is not an array, or holds a null element
LatestRaises(j) ==
    \/ j.isNull
    \/ j.hasFeatures /\ ~j.isArray
    \/ \E i \in 1..Len(j.features) : j.features[i].isNull

\* C3 as claimed: a primary failure leads to one fallback query, and a failed
\* fallback settles the call with an error carrying the station id and, when
\* there is a response, its HTTP status.
C3_FallbackErrorCarriesStationAndStatus ==
    (pc = "done" /\ op \in StationOps /\ ~Succeeded(responses[1])) =>
        /\ Len(requests) = 2 /\ Len(responses) = 2
        /\ ~Succeeded(responses[2]) =>
              /\ result.threw
              /\ stationNumber \in Range(result.error.message)
              /\ responses[2].netOk => responses[2].status \in Range(result.error.message)

\* C3 as amended: a primary failure is not the call's outcome (the call is
\* pending until the one fallback query settles, and is never rejected with the
\* primary's error); a failed fallback always rejects the call: with an error
\* carrying the station id and the status when the status is not 2xx, with the
\* fetch's TypeError on a network error, with the parser's SyntaxError on an
\* unparsable body.
C3_PrimarySwallowedFallbackPropagates ==
    (op \in StationOps /\ Len(responses) >= 1 /\ ~Succeeded(responses[1])) =>
        /\ Len(requests) = 2 /\ requests[2] = UnfilteredRequestOf(op)
        /\ pc = "tryUnfiltered" => (Len(responses) = 1 /\ result = Pending)
        /\ pc = "done" =>
              /\ Len(responses) = 2
              /\ FailedByStatus(responses[1]) =>
                    result.error # Error(CqlMessageOf(op, stationNumber)
                                            \o <<responses[1].status>>)
              /\ Succeeded(responses[2]) =>
                    (result.threw =>
                        \/ result.error = NoGeometryError(stationNumber)
                        \/ /\ result.error.name = "TypeError"
                           /\ IF op = "fetchHydrometricStationMeta"
                              THEN MetaRaises(responses[2].body, stationNumber)
                              ELSE LatestRaises(responses[2].body))
              /\ FailedByStatus(responses[2]) =>
                    /\ result.threw /\ result.error.name = "Error"
                    /\ stationNumber \in Range(result.error.message)
                    /\ responses[2].status \in Range(result.error.message)
                    /\ \E i \in 1..Len(result.error.message) :
                          result.error.message[i]
                              \in {"stations meta (fallback) ", "realtime (fallback) "}
              /\ ~responses[2].netOk => result = Threw(FetchTypeError)
              /\ (responses[2].netOk /\ ResponseOk(responses[2])
                    /\ ~responses[2].body.parsable) => result = Threw(JsonSyntaxError)

\* both queries of fetchHydrometricStationMeta failed by status, the fallback
\* with a 500: the call is rejected with the fallback's error
C3_Witness ==
    /\ pc = "done" /\ op = "fetchHydrometricStationMeta"
    /\ Len(responses) = 2
    /\ FailedByStatus(responses[1])
    /\ responses[2] = HttpError("500")
    /\ result = Threw(Error(<<"stations meta (fallback) ", stationNumber, ": ", "500">>))


\* fetchHydrometricStationMeta reached its geometry check on result set `json`
MetaChecked ==
    pc = "done" /\ op = "fetchHydrometricStationMeta" /\ Succeeded(responses[Len(responses)])

\* index in feats of the first entry of station stn, 0 if there is none
FirstOfStation(feats, stn) ==
    IF \E i \in 1..Len(feats) : feats[i].properties.STATION_NUMBER = stn
    THEN CHOOSE i \in 1..Len(feats) :
            /\ feats[i].properties.STATION_NUMBER = stn
            /\ \A j \in 1..(i - 1) : feats[j].properties.STATION_NUMBER # stn
    ELSE 0

\* the i-th element of an array, undefined past its end
ElementOr(c, i) == IF i <= Len(c) THEN c[i] ELSE Undefined

\* the entry the location is taken from: the first of the station, else the first
Selected(feats, stn) ==
    IF FirstOfStation(feats, stn) # 0 THEN feats[FirstOfStation(feats, stn)] ELSE feats[1]

\* C4 as claimed: a selected feature whose geometry is missing, or whose
\* coordinates are not an array of length 2, makes fetchHydrometricStationMeta
\* fail with the no-geometry error naming the station.
C4_NoGeometryUnlessCoordinatePair ==
    (MetaChecked /\ Len(FeaturesOf(json)) > 0) =>
        LET g == Selected(FeaturesOf(json), stationNumber).geometry
        IN  (~g.present \/ ~g.isArray \/ Len(g.coordinates) # 2)
                => result = Threw(NoGeometryError(stationNumber))

\* C4 as amended: the call fails with the no-geometry error naming the station
\* exactly when no feature is selected, or the selected feature has no geometry,
\* or its coordinates are not an array; a coordinates array of any length is
\* accepted, and the location returned holds its first element as lon and its
\* second as lat (undefined when the array is shorter). A body on which the
\* selection itself raises (null, `features` not an array, a null element
\* before the station's entry) fails with that TypeError instead.
C4_NoGeometryUnlessCoordinatesArray ==
    MetaChecked =>
        IF MetaRaises(json, stationNumber)
        THEN result.threw /\ result.error.name = "TypeError"
        ELSE IF Len(FeaturesOf(json)) = 0
        THEN result = Threw(NoGeometryError(stationNumber))
        ELSE LET f == Selected(FeaturesOf(json), stationNumber)
                 g == f.geometry
                 c == g.coordinates
             IN  IF ~g.present \/ ~g.isArray
                 THEN result = Threw(NoGeometryError(stationNumber))
                 ELSE /\ ~result.threw
                      /\ result.value.lon = ElementOr(c, 1)
                      /\ result.value.lat = ElementOr(c, 2)

\* the selected feature has a geometry whose coordinates are not an array, and
\* the call failed with the no-geometry error naming the station
C4_Witness ==
    /\ MetaChecked /\ Len(FeaturesOf(json)) > 0
    /\ Selected(FeaturesOf(json), stationNumber).geometry = NoCoordinates
    /\ result = Threw(Error(<<"No geometry for station ", stationNumber>>))

\* the rows of a result set, as the code reads them
RowsIn(feats) == [i \in 1..Len(feats) |-> feats[i].properties]

\* rows is one row of `among` for each PARAMETER of `among`, and nothing else
OnePerParameterOf(rows, among) ==
    /\ \A i \in 1..Len(rows) : rows[i] \in Range(among)
    /\ \A r \in Range(among) :
          Cardinality({i \in 1..Len(rows) : rows[i].PARAMETER = r.PARAMETER}) = 1

\* C5 as claimed: on a fallback result set, fetchHydrometricStationMeta returns
\* the location of the first entry of the requested station, or of the first
\* entry when the station has none, and fetchHydrometricRealtimeLatest returns
\* only rows of the requested station.
C5_FallbackReturnsOnlyStationRows ==
    (pc = "done" /\ Len(responses) = 2 /\ Succeeded(responses[2]) /\ ~result.threw) =>
        LET feats == FeaturesOf(responses[2].body)
        IN  /\ op = "fetchHydrometricStationMeta" =>
                  /\ Len(feats) > 0
                  /\ LET f == Selected(feats, stationNumber)
                     IN  result.value = [lat   |-> ElementOr(f.geometry.coordinates, 2),
                                         lon   |-> ElementOr(f.geometry.coordinates, 1),
                                         props |-> f.properties]
            /\ op = "fetchHydrometricRealtimeLatest" =>
                  \A i \in 1..Len(result.value) :
                      result.value[i].STATION_NUMBER = stationNumber

\* C5 as amended: fetchHydrometricStationMeta as claimed;
\* fetchHydrometricRealtimeLatest returns rows of the requested station only
\* (one for each PARAMETER the station has in the set) when the first entry of
\* the set carries a station number, and when the first entry carries none it
\* keeps every row of the set, whatever its station (one for each PARAMETER of
\* the set).
C5_FallbackMatchesStationLocally ==
    (pc = "done" /\ Len(responses) = 2 /\ Succeeded(responses[2]) /\ ~result.threw) =>
        LET feats == FeaturesOf(responses[2].body)
            rows  == RowsIn(feats)
        IN  /\ op = "fetchHydrometricStationMeta" =>
                  /\ Len(feats) > 0
                  /\ LET f == Selected(feats, stationNumber)
                     IN  result.value = [lat   |-> ElementOr(f.geometry.coordinates, 2),
                                         lon   |-> ElementOr(f.geometry.coordinates, 1),
                                         props |-> f.properties]
            /\ op = "fetchHydrometricRealtimeLatest" =>
                  IF Len(rows) > 0 /\ rows[1].STATION_NUMBER = Undefined
                  THEN OnePerParameterOf(result.value, rows)
                  ELSE /\ \A i \in 1..Len(result.value) :
                             result.value[i].STATION_NUMBER = stationNumber
                       /\ OnePerParameterOf(result.value,
                             SelectSeq(rows, LAMBDA r : r.STATION_NUMBER = stationNumber))

\* the fallback result set of fetchHydrometricRealtimeLatest holds a row of
\* another station first and a row of the requested one second, and the call
\* returned the second row alone
C5_Witness ==
    /\ pc = "done" /\ op = "fetchHydrometricRealtimeLatest"
    /\ Len(responses) = 2 /\ Succeeded(responses[2]) /\ ~result.threw
    /\ Len(responses[2].body.features) = 2
    /\ responses[2].body.features[1].properties.STATION_NUMBER \notin {stationNumber, Undefined}
    /\ responses[2].body.features[2].properties.STATION_NUMBER = stationNumber
    /\ result.value = <<responses[2].body.features[2].properties>>

\* C6: a station operation issues at most two requests, the second one is the
\* unfiltered query, differs from the first and is issued only once the first
\* has settled with a failure, and a call whose primary query succeeded has
\* issued exactly one request.
C6_AtMostTwoSequentialRequests ==
    op \in StationOps =>
        /\ Len(requests) \in {1, 2}
        /\ Len(responses) <= Len(requests)
        /\ requests[1] = CqlRequestOf(op, stationNumber)
        /\ Len(requests) = 2 =>
              /\ Len(responses) >= 1 /\ ~Succeeded(responses[1])
              /\ requests[2] = UnfilteredRequestOf(op)
              /\ requests[2] # requests[1]
        /\ pc = "done" => Len(responses) = Len(requests)
        /\ (Len(responses) >= 1 /\ Succeeded(responses[1])) =>
              (pc = "done" /\ Len(requests) = 1)

\* a call whose primary query failed settled after exactly two requests
C6_Witness ==
    /\ pc = "done" /\ op \in StationOps
    /\ ~Succeeded(responses[1])
    /\ Len(requests) = 2 /\ Len(responses) = 2
    /\ ~result.threw


LayerDone == pc = "done" /\ op = "fetchArcGISLayerGeoJSON"

\* C7 as claimed: fetchArcGISLayerGeoJSON issues exactly one request; a
\* response whose status is not 2xx rejects the call with an error carrying the
\* endpoint and the status; a successful response is returned unchanged.
C7_LayerErrorCarriesEndpointAndStatus ==
    LayerDone =>
        /\ Len(requests) = 1 /\ Len(responses) = 1
        /\ FailedByStatus(responses[1]) =>
              /\ result.threw
              /\ responses[1].status \in Range(result.error.message)
              /\ \/ stationNumber \in Range(result.error.message)
                 \/ StripTrailingSlashes(stationNumber) \in Range(result.error.message)
        /\ Succeeded(responses[1]) => result = Returned(responses[1].body)

\* C7 as amended: fetchArcGISLayerGeoJSON issues exactly one request, the query
\* of the layer; a response whose status is not 2xx rejects the call at once
\* with the error `ArcGIS layer: <status>`, which carries the status and not
\* the endpoint; no second request is issued and a rejected call returns
\* nothing; a successful response is returned unchanged.
C7_LayerErrorCarriesStatusOnly ==
    op = "fetchArcGISLayerGeoJSON" =>
        /\ requests = <<LayerRequest(stationNumber)>>
        /\ Len(responses) <= 1
        /\ pc = "done" =>
              /\ Len(responses) = 1
              /\ FailedByStatus(responses[1]) =>
                    /\ result = Threw(Error(<<"ArcGIS layer: ", responses[1].status>>))
                    /\ stationNumber \notin Range(result.error.message)
                    /\ StripTrailingSlashes(stationNumber) \notin Range(result.error.message)
              /\ result.threw => result.value = Undefined
              /\ Succeeded(responses[1]) => result = Returned(responses[1].body)

\* the layer endpoint answered 500 and the call was rejected with the status
C7_Witness ==
    /\ LayerDone
    /\ responses = <<HttpError("500")>>
    /\ result.threw /\ "500" \in Range(result.error.message)
    /\ Len(requests) = 1

\* fetchHydrometricRealtimeLatest has settled
LatestDone == pc = "done" /\ op = "fetchHydrometricRealtimeLatest"

\* C10 as claimed: fetchHydrometricRealtimeLatest raises an error only when
\* its last query failed; when the query that succeeded yields no row, or no
\* row of the requested station, it returns the empty sequence.
C10_ErrorOnlyWhenFetchFails ==
    LatestDone =>
        LET last == responses[Len(responses)]
            feats == FeaturesOf(last.body)
        IN  /\ result.threw => ~Succeeded(last)
            /\ (Succeeded(last) /\ Len(feats) = 0) => result = Returned(<<>>)
            /\ (Succeeded(last)
                  /\ \A i \in 1..Len(feats) :
                        feats[i].properties.STATION_NUMBER # stationNumber)
                  => result = Returned(<<>>)

\* C10 as amended: fetchHydrometricRealtimeLatest is rejected exactly when its
\* last query failed or the parsed body makes the reading of the rows raise (a
\* null body, `features` not an array, a null element: a TypeError). Otherwise
\* it returns the empty sequence when the body yields no row, or yields rows
\* the first of which carries a station number and none of which is of the
\* requested station; when the first row carries no station number every row
\* is kept and the sequence returned is not empty.
C10_EmptyIsNotAnError ==
    LatestDone =>
        LET last == responses[Len(responses)]
            feats == FeaturesOf(last.body)
        IN  /\ result.threw <=> (~Succeeded(last) \/ LatestRaises(last.body))
            /\ (Succeeded(last) /\ LatestRaises(last.body)) =>
                  /\ result.error.name = "TypeError"
                  /\ Len(requests) = Len(responses)
            /\ (Succeeded(last) /\ ~LatestRaises(last.body)) =>
                  IF Len(feats) = 0 THEN result = Returned(<<>>)
                  ELSE IF feats[1].properties.STATION_NUMBER = Undefined
                  THEN ~result.threw /\ Len(result.value) > 0
                  ELSE (\A i \in 1..Len(feats) :
                            feats[i].properties.STATION_NUMBER # stationNumber)
                          <=> result = Returned(<<>>)

\* the fallback query succeeded with rows of another station only, and the
\* call returned the empty sequence
C10_Witness ==
    /\ LatestDone
    /\ Len(responses) = 2 /\ Succeeded(responses[2])
    /\ Len(FeaturesOf(responses[2].body)) = 2
    /\ \A i \in 1..2 :
          FeaturesOf(responses[2].body)[i].properties.STATION_NUMBER
              \notin {stationNumber, Undefined}
    /\ result = Returned(<<>>)


\* main.js awaited operation o on a
Called(o, a) == \E i \in 1..Len(calls) : calls[i].op = o /\ calls[i].arg = a

\* main.js awaited operation o on a and the promise was fulfilled
Fulfilled(o, a) ==
    \E i \in 1..Len(calls) : calls[i].op = o /\ calls[i].arg = a /\ ~calls[i].settled.threw

\* hydroLayer holds a marker of the station
MarkerOf(stn) == \E i \in 1..Len(hydroLayer) : hydroLayer[i].title = <<"WSC ", stn>>

\* the layer calls, in order
LayerCalls == SelectSeq(calls, LAMBDA c : c.op = "fetchArcGISLayerGeoJSON")

\* the layer calls that were fulfilled with at least one feature, in order
LayersWithFeatures ==
    SelectSeq(LayerCalls, LAMBDA c : /\ ~c.settled.threw
                                     /\ c.settled.value.hasFeatures
                                     /\ Len(c.settled.value.features) > 0)

\* the map holds exactly the layers fetched with features, in order
LayersRendered ==
    /\ Len(mapLayers) = Len(LayersWithFeatures)
    /\ \A i \in 1..Len(mapLayers) :
          mapLayers[i] = [name    |-> LayerName(LayersWithFeatures[i].arg),
                          geojson |-> LayersWithFeatures[i].settled.value]

\* every station and every layer with a url was attempted, and each one whose
\* fetch did not fail is on the map
AllProcessed ==
    /\ \A k \in 1..Len(wscStations) :
          /\ Called("fetchHydrometricStationMeta", wscStations[k])
          /\ Fulfilled("fetchHydrometricStationMeta", wscStations[k]) =>
                /\ Called("fetchHydrometricRealtimeLatest", wscStations[k])
                /\ MarkerOf(wscStations[k])
    /\ [i \in 1..Len(LayerCalls) |-> LayerCalls[i].arg]
          = SelectSeq(wsaLayers, LAMBDA u : u # "")
    /\ LayersRendered
    /\ debug[Len(debug)] = <<"Finished loading">>

\* C8: whatever fetches fail, the load sequence reaches its end, and by then
\* every configured station and every configured layer has been attempted and
\* each one whose fetch did not fail is on the map.
C8_FailuresDoNotBlockLaterOnes ==
    /\ <>(mainPc = "done")
    /\ [](mainPc = "done" => AllProcessed)

\* the sequence ended after the first station's lookup failed and the second
\* station got its marker, and after a layer's fetch failed and a later layer
\* was added to the map
C8_Witness ==
    /\ mainPc = "done"
    /\ calls[1].op = "fetchHydrometricStationMeta" /\ calls[1].settled.threw
    /\ MarkerOf(wscStations[2])
    /\ \E i \in 1..Len(LayerCalls) : \E j \in (i + 1)..Len(LayerCalls) :
          /\ LayerCalls[i].settled.threw
          /\ ~LayerCalls[j].settled.threw
          /\ Len(mapLayers) >= 1
          /\ mapLayers[Len(mapLayers)].name = LayerName(LayerCalls[j].arg)

\* the log holds a warning that names the call's station or layer and ends
\* with the message of the error the call was rejected with
Diagnosed(c) ==
    \E k \in 1..Len(debug) :
        LET msg == debug[k]
            n   == Len(c.settled.error.message)
        IN  /\ msg[1] = "[warning] "
            /\ c.arg \in Range(msg)
            /\ Len(msg) > n
            /\ SubSeq(msg, Len(msg) - n + 1, Len(msg)) = c.settled.error.message

\* C9 as claimed: a station one of whose two lookups failed has no marker, a
\* layer whose fetch failed is not on the map, and the failure is logged with
\* the station or layer and the cause.
C9_FailedStationOrLayerOmitted ==
    /\ \A i \in 1..Len(calls) :
          calls[i].settled.threw =>
              /\ Diagnosed(calls[i])
              /\ calls[i].op \in StationOps => ~MarkerOf(calls[i].arg)
    /\ LayersRendered

\* C9 as amended: a station whose location lookup failed has no marker (and
\* its latest values are not fetched), a layer whose fetch failed is not on the
\* map, and each failure is logged with the station or layer and the cause; a
\* station whose latest-values lookup alone failed is logged likewise but keeps
\* its marker, whose popup shows "No recent values".
C9_OmittedOnLocationOrLayerFailure ==
    /\ \A i \in 1..Len(calls) :
          calls[i].settled.threw =>
              /\ Diagnosed(calls[i])
              /\ calls[i].op = "fetchHydrometricStationMeta" =>
                    /\ ~MarkerOf(calls[i].arg)
                    /\ ~Called("fetchHydrometricRealtimeLatest", calls[i].arg)
              /\ calls[i].op = "fetchHydrometricRealtimeLatest" =>
                    \E k \in 1..Len(hydroLayer) :
                        /\ hydroLayer[k].title = <<"WSC ", calls[i].arg>>
                        /\ hydroLayer[k].popup.noRecentValues
    /\ LayersRendered

\* the location lookup of the first station failed, the latest-values lookup of
\* the second failed, a layer's fetch failed: only the second station is on the
\* map
C9_Witness ==
    /\ mainPc = "done"
    /\ Len(calls) = 4
    /\ calls[1].op = "fetchHydrometricStationMeta" /\ calls[1].settled.threw
    /\ calls[3].op = "fetchHydrometricRealtimeLatest" /\ calls[3].settled.threw
    /\ calls[4].op = "fetchArcGISLayerGeoJSON" /\ calls[4].settled.threw
    /\ Len(hydroLayer) = 1 /\ MarkerOf(wscStations[2]) /\ ~MarkerOf(wscStations[1])
    /\ mapLayers = <<>>

\* indices of the input rows of PARAMETER k
KeyRows(k) == {j \in 1..Len(foldRows) : foldRows[j].PARAMETER = k}

\* indices of the input rows of PARAMETER k whose DATE parses
ValidKeyRows(k) == {j \in KeyRows(k) : DateParse(foldRows[j].DATE) # NaN}

\* the rows the fold returned for PARAMETER k
RetainedFor(k) == {foldLatest[i] : i \in {n \in 1..Len(foldLatest) : foldLatest[n].PARAMETER = k}}

\* C11: a row whose timestamp does not parse counts as earlier than every row
\* with a valid one: whenever a key has a row with a valid timestamp, the row
\* the fold returns for the key has a valid timestamp, the latest valid one of
\* the key, whatever the order of the input.
C11_InvalidTimestampIsEarliest ==
    FoldRan =>
        \A k \in ParameterKeys(foldRows) :
            ValidKeyRows(k) # {} =>
                \A row \in RetainedFor(k) :
                    /\ DateParse(row.DATE) # NaN
                    /\ \A j \in ValidKeyRows(k) :
                          DateParse(row.DATE) >= DateParse(foldRows[j].DATE)

\* C12: when several rows of a key share the latest timestamp of the key, the
\* fold returns the first of them in input order and no later one.
C12_TieKeepsFirstFolded ==
    FoldRan =>
        \A k \in ParameterKeys(foldRows) :
            ValidKeyRows(k) # {} =>
                LET latest == {j \in ValidKeyRows(k) :
                                  \A n \in ValidKeyRows(k) :
                                      DateParse(foldRows[j].DATE) >= DateParse(foldRows[n].DATE)}
                    first  == CHOOSE j \in latest : \A n \in latest : j <= n
                IN  Cardinality(latest) >= 2 => RetainedFor(k) = {foldRows[first]}

====
